---- MODULE Spec2Model ----
(***************************************************************************)
(* Model of aptly's query engine (src/deb/query.go) and publish pipeline   *)
(* (src/debian/publish.go).                                                *)
(*                                                                         *)
(* Strings whose content matters (names, versions, architectures, values   *)
(* of fields, map keys) are sequences of one-character strings, so that    *)
(* concatenation and byte-wise comparison are computed, not assumed.       *)
(***************************************************************************)
EXTENDS Integers, Sequences, FiniteSets, TLC

VARIABLES
    \* ---- query engine ----
    query,      \* the query tree under evaluation
    heap,       \* PackageList objects: heap[i] is the packages map of object i
    qpc,        \* "start" | "matched" | "queried" | "aborted"
    results,    \* object ids returned by the Query calls so far, in call order
    written,    \* object ids Add/Append wrote to during the last Query call
    matchPkg,   \* package of the last Matches call
    matchOut,   \* outcome of the last call: "true", "false", a panic, "none"
    evaluated,  \* the Field nodes the last call evaluated
    \* ---- publish pipeline ----
    Architectures,  \* p.Architectures: a list, or NilArchs when not supplied
    refList,        \* p.snapshot.RefList(): the packages of the snapshot, in order
    pc,             \* position inside Publish, "idle" between calls
    err,            \* return value of the last Publish: "nil" or the error
    list,           \* the materialized package list
    archIdx,        \* index of the architecture the loop is at
    pkgIdx,         \* index of the package ForEach is at
    ckIdx,          \* which of the three checksums of the architecture is next
    bufWriter,      \* content buffered and not yet in the file
    generatedFiles, \* the map path -> ChecksumInfo, as <<path, info>> in slot order
    release,        \* the Release stanza
    dirs,           \* directories of the repository
    files,          \* files of the repository: path -> content
    pool,           \* package files linked into the pool
    now,            \* the clock read by time.Now()
    log,            \* operations of the current Publish call, in order
    runs            \* outcome of every finished Publish call

qvars == <<query, heap, qpc, results, written, matchPkg, matchOut, evaluated>>

pvars == <<Architectures, refList, pc, err, list, archIdx, pkgIdx, ckIdx, bufWriter,
           generatedFiles, release, dirs, files, pool, now, log, runs>>

vars == <<qvars, pvars>>

(***************************************************************************)
(* Bounds                                                                  *)
(***************************************************************************)
MaxNodes == 5
MaxQueries == 2
MaxArchs == 2
MaxRuns == 2

(***************************************************************************)
(* Strings                                                                 *)
(***************************************************************************)
\* Byte order of the characters used (ASCII order).
Alphabet == <<" ", "*", "0", "1", "2", "3", "4", "5", "6", "7", "8", "9", "[",
              "a", "b", "d", "e", "i", "l", "m", "n", "t">>

Ord(c) == CHOOSE i \in 1..Len(Alphabet) : Alphabet[i] = c

RECURSIVE StrLess(_, _)
\* Go's s < t on strings: byte-wise lexicographic
StrLess(s, t) ==
    IF t = <<>> THEN FALSE
    ELSE IF s = <<>> THEN TRUE
    ELSE IF Ord(Head(s)) # Ord(Head(t)) THEN Ord(Head(s)) < Ord(Head(t))
    ELSE StrLess(Tail(s), Tail(t))

sAll == <<"a", "l", "l">>
sAmd64 == <<"a", "m", "d", "6", "4">>
sI386 == <<"i", "3", "8", "6">>
sNet == <<"n", "e", "t">>

(***************************************************************************)
(* Packages and package lists                                              *)
(***************************************************************************)
Pkg1 == [Name |-> <<"a">>, Version |-> <<"5">>, Architecture |-> sAmd64, Section |-> <<>>]
Pkg2 == [Name |-> <<"a">>, Version |-> <<"1", "0">>, Architecture |-> sAll, Section |-> sNet]
Pkg3 == [Name |-> <<"b">>, Version |-> <<"5">>, Architecture |-> sI386, Section |-> sNet]

Universe == {Pkg1, Pkg2, Pkg3}

\* key of the packages map: "P" + arch + " " + name + " " + version
KeyOf(arch, name, version) == <<"P">> \o arch \o <<" ">> \o name \o <<" ">> \o version

Key(pkg) == KeyOf(pkg.Architecture, pkg.Name, pkg.Version)

\* the packages map holding exactly the set S of packages
MapOf(S) == [k \in {Key(p) : p \in S} |-> CHOOSE p \in S : Key(p) = k]

PkgsOf(m) == {m[k] : k \in DOMAIN m}

MatchesArchitecture(pkg, arch) == pkg.Architecture = sAll \/ pkg.Architecture = arch

GetField(pkg, f) ==
    CASE f = "Name" -> pkg.Name
      [] f = "Version" -> pkg.Version
      [] f = "Architecture" -> pkg.Architecture
      [] f = "Section" -> pkg.Section
      [] OTHER -> <<>>

RECURSIVE VersionNum(_)
\* a version made of decimal digits, read as a number
VersionNum(v) ==
    IF v = <<>> THEN 0
    ELSE (Ord(v[Len(v)]) - Ord("0")) + 10 * VersionNum(SubSeq(v, 1, Len(v) - 1))

\* Debian version comparison (numeric on the digit strings used here), as
\* opposed to the byte-wise StrLess
CompareVersions(a, b) ==
    IF VersionNum(a) < VersionNum(b) THEN -1
    ELSE IF VersionNum(a) > VersionNum(b) THEN 1 ELSE 0

RECURSIVE GlobLit(_, _)
\* shell pattern of literals and "*" against s
GlobLit(pat, s) ==
    IF pat = <<>> THEN s = <<>>
    ELSE IF Head(pat) = "*"
         THEN \E i \in 1..(Len(s) + 1) : GlobLit(Tail(pat), SubSeq(s, i, Len(s)))
    ELSE s # <<>> /\ Head(s) = Head(pat) /\ GlobLit(Tail(pat), Tail(s))

\* filepath.Match(pattern, name): <<matched, err>>; an unclosed "[" is ErrBadPattern
FilepathMatch(pat, s) ==
    IF \E i \in 1..Len(pat) : pat[i] = "["
    THEN [matched |-> FALSE, err |-> TRUE]
    ELSE [matched |-> GlobLit(pat, s), err |-> FALSE]

(***************************************************************************)
(* Outcomes of a predicate evaluation: a boolean, or a panic               *)
(***************************************************************************)
B(b) == IF b THEN "true" ELSE "false"
PanicNotImplemented == "panic: regexp matching not implemented yet"
PanicUnknown == "panic: unknown relation"
IsPanic(o) == o \in {PanicNotImplemented, PanicUnknown}

Relations == {"VersionDontCare", "VersionEqual", "VersionGreater", "VersionGreaterOrEqual",
              "VersionLess", "VersionLessOrEqual", "VersionPatternMatch", "VersionRegexp"}

\* Package.MatchesDependency: same name, then the relation on Debian versions
MatchesDependency(pkg, dep) ==
    IF dep.Pkg # pkg.Name THEN "false"
    ELSE LET r == CompareVersions(pkg.Version, dep.Version) IN
         CASE dep.Relation = "VersionDontCare" -> "true"
           [] dep.Relation = "VersionEqual" -> B(r = 0)
           [] dep.Relation = "VersionGreater" -> B(r > 0)
           [] dep.Relation = "VersionGreaterOrEqual" -> B(r >= 0)
           [] dep.Relation = "VersionLess" -> B(r < 0)
           [] dep.Relation = "VersionLessOrEqual" -> B(r <= 0)
           [] dep.Relation = "VersionPatternMatch" ->
                B(FilepathMatch(dep.Version, pkg.Version).matched)
           [] dep.Relation = "VersionRegexp" -> PanicNotImplemented
           [] OTHER -> PanicUnknown

\* PackageList.Search(dep, allMatches = true): the packages satisfying dep
Search(m, dep) == {p \in PkgsOf(m) : MatchesDependency(p, dep) = "true"}

(***************************************************************************)
(* Query trees                                                             *)
(***************************************************************************)
OrQ(l, r) == [op |-> "Or", L |-> l, R |-> r]
AndQ(l, r) == [op |-> "And", L |-> l, R |-> r]
NotQ(q) == [op |-> "Not", Q |-> q]
FieldQ(f, rel, v) == [op |-> "Field", Field |-> f, Relation |-> rel, Value |-> v]
PkgQ(name, version, arch) == [op |-> "Pkg", Pkg |-> name, Version |-> version, Arch |-> arch]
DepQ(name, rel, version) ==
    [op |-> "Dependency", Dep |-> [Pkg |-> name, Relation |-> rel, Version |-> version]]

RECURSIVE Matches(_, _)
RECURSIVE Fast(_)
RECURSIVE Query(_, _, _)

\* q.L.Matches(pkg) || q.R.Matches(pkg): R is evaluated only when L is false
OrQueryMatches(q, pkg) ==
    LET l == Matches(q.L, pkg) IN
    IF l = "false" THEN Matches(q.R, pkg) ELSE l

OrQueryFast(q) == Fast(q.L) /\ Fast(q.R)

\* q.L.Matches(pkg) && q.R.Matches(pkg): R is evaluated only when L is true
AndQueryMatches(q, pkg) ==
    LET l == Matches(q.L, pkg) IN
    IF l = "true" THEN Matches(q.R, pkg) ELSE l

AndQueryFast(q) == Fast(q.L) \/ Fast(q.R)

NotQueryMatches(q, pkg) ==
    LET o == Matches(q.Q, pkg) IN
    IF IsPanic(o) THEN o ELSE B(o = "false")

NotQueryFast(q) == FALSE

\* mutant: the regexp relation silently treated as a non-match
FieldQueryMatches_SilentMismatch(q, pkg) ==
    IF q.Field = "$Version"
    THEN MatchesDependency(pkg, [Pkg |-> pkg.Name, Relation |-> q.Relation, Version |-> q.Value])
    ELSE IF q.Field = "$Architecture" /\ q.Relation = "VersionEqual"
    THEN B(MatchesArchitecture(pkg, q.Value))
    ELSE LET field == GetField(pkg, q.Field) IN
         CASE q.Relation = "VersionDontCare" -> B(field # <<>>)
           [] q.Relation = "VersionEqual" -> B(field = q.Value)
           [] q.Relation = "VersionGreater" -> B(StrLess(q.Value, field))
           [] q.Relation = "VersionGreaterOrEqual" -> B(~StrLess(field, q.Value))
           [] q.Relation = "VersionLess" -> B(StrLess(field, q.Value))
           [] q.Relation = "VersionLessOrEqual" -> B(~StrLess(q.Value, field))
           [] q.Relation = "VersionPatternMatch" ->
                LET m == FilepathMatch(q.Value, field) IN B(~m.err /\ m.matched)
           [] OTHER -> "false"

FieldQueryMatches(q, pkg) ==
    IF q.Field = "$Version"
    THEN MatchesDependency(pkg, [Pkg |-> pkg.Name, Relation |-> q.Relation, Version |-> q.Value])
    ELSE IF q.Field = "$Architecture" /\ q.Relation = "VersionEqual"
    THEN B(MatchesArchitecture(pkg, q.Value))
    ELSE LET field == GetField(pkg, q.Field) IN
         CASE q.Relation = "VersionDontCare" -> B(field # <<>>)
           [] q.Relation = "VersionEqual" -> B(field = q.Value)
           [] q.Relation = "VersionGreater" -> B(StrLess(q.Value, field))
           [] q.Relation = "VersionGreaterOrEqual" -> B(~StrLess(field, q.Value))
           [] q.Relation = "VersionLess" -> B(StrLess(field, q.Value))
           [] q.Relation = "VersionLessOrEqual" -> B(~StrLess(q.Value, field))
           [] q.Relation = "VersionPatternMatch" ->
                LET m == FilepathMatch(q.Value, field) IN B(~m.err /\ m.matched)
           [] q.Relation = "VersionRegexp" -> PanicNotImplemented
           [] OTHER -> PanicUnknown

FieldQueryFast(q) == FALSE

DependencyQueryMatches(q, pkg) == MatchesDependency(pkg, q.Dep)

DependencyQueryFast(q) == TRUE

PkgQueryMatches(q, pkg) ==
    B(pkg.Name = q.Pkg /\ pkg.Version = q.Version /\ pkg.Architecture = q.Arch)

PkgQueryFast(q) == TRUE

Matches(q, pkg) ==
    CASE q.op = "Or" -> OrQueryMatches(q, pkg)
      [] q.op = "And" -> AndQueryMatches(q, pkg)
      [] q.op = "Not" -> NotQueryMatches(q, pkg)
      [] q.op = "Field" -> FieldQueryMatches(q, pkg)
      [] q.op = "Dependency" -> DependencyQueryMatches(q, pkg)
      [] q.op = "Pkg" -> PkgQueryMatches(q, pkg)

Fast(q) ==
    CASE q.op = "Or" -> OrQueryFast(q)
      [] q.op = "And" -> AndQueryFast(q)
      [] q.op = "Not" -> NotQueryFast(q)
      [] q.op = "Field" -> FieldQueryFast(q)
      [] q.op = "Dependency" -> DependencyQueryFast(q)
      [] q.op = "Pkg" -> PkgQueryFast(q)

(***************************************************************************)
(* PackageList objects and Query                                           *)
(*                                                                         *)
(* A call returns [heap, res, panic, written, evaluated]: the heap after   *)
(* the call, the id of the returned list, the panic that ended the call    *)
(* ("none" when it returned), the ids of the lists that Add or Append      *)
(* wrote to, and the Field nodes whose Matches the call evaluated.         *)
(***************************************************************************)
NoPanic == "none"

MapAppend(m, other) ==
    [k \in DOMAIN m \cup DOMAIN other |-> IF k \in DOMAIN m THEN m[k] ELSE other[k]]

\* NewPackageList() followed by result.Add(pkg) for every pkg of S
NewListOf(h, S, panic, ev) ==
    [heap |-> Append(h, MapOf(S)), res |-> Len(h) + 1, panic |-> panic,
     written |-> IF S = {} THEN {} ELSE {Len(h) + 1}, evaluated |-> ev]

RECURSIVE Evaluated(_, _)
\* the Field nodes that q.Matches(pkg) evaluates (|| and && short-circuit)
Evaluated(q, pkg) ==
    CASE q.op = "Or" ->
           Evaluated(q.L, pkg) \cup
           (IF Matches(q.L, pkg) = "false" THEN Evaluated(q.R, pkg) ELSE {})
      [] q.op = "And" ->
           Evaluated(q.L, pkg) \cup
           (IF Matches(q.L, pkg) = "true" THEN Evaluated(q.R, pkg) ELSE {})
      [] q.op = "Not" -> Evaluated(q.Q, pkg)
      [] q.op = "Field" -> {q}
      [] OTHER -> {}

\* PackageList.Scan(q): a new list of the packages of list id that q matches;
\* every package is evaluated, so a panicking Matches ends the scan
Scan(h, id, q) ==
    LET pkgs == PkgsOf(h[id])
        bad == {Matches(q, p) : p \in pkgs} \ {"true", "false"}
        hit == {p \in pkgs : Matches(q, p) = "true"}
        ev == UNION {Evaluated(q, p) : p \in pkgs}
    IN IF bad # {} THEN NewListOf(h, hit, CHOOSE o \in bad : TRUE, ev)
       ELSE NewListOf(h, hit, NoPanic, ev)

\* mutant: the fast path appends both sides' results to the list queried
OrQueryQuery_InPlace(q, h, id) ==
    IF OrQueryFast(q)
    THEN LET l == Query(q.L, h, id) IN
         IF l.panic # NoPanic THEN l
         ELSE LET r == Query(q.R, l.heap, id) IN
              IF r.panic # NoPanic
              THEN [r EXCEPT !.written = @ \cup l.written,
                             !.evaluated = @ \cup l.evaluated]
              ELSE [heap |-> [r.heap EXCEPT ![id] =
                                MapAppend(MapAppend(@, r.heap[l.res]), r.heap[r.res])],
                    res |-> id, panic |-> NoPanic,
                    written |-> l.written \cup r.written \cup {id},
                    evaluated |-> l.evaluated \cup r.evaluated]
    ELSE Scan(h, id, q)

OrQueryQuery(q, h, id) ==
    IF OrQueryFast(q)
    THEN LET l == Query(q.L, h, id) IN
         IF l.panic # NoPanic THEN l
         ELSE LET r == Query(q.R, l.heap, id) IN
              IF r.panic # NoPanic
              THEN [r EXCEPT !.written = @ \cup l.written,
                             !.evaluated = @ \cup l.evaluated]
              ELSE [heap |-> [r.heap EXCEPT ![l.res] = MapAppend(@, r.heap[r.res])],
                    res |-> l.res, panic |-> NoPanic,
                    written |-> l.written \cup r.written \cup {l.res},
                    evaluated |-> l.evaluated \cup r.evaluated]
    ELSE Scan(h, id, q)

\* mutant: the fast path returns the fast side's candidates unfiltered
AndQueryQuery_NoFilter(q, h, id) ==
    IF ~AndQueryFast(q) THEN Scan(h, id, q)
    ELSE Query(IF Fast(q.L) THEN q.L ELSE q.R, h, id)

AndQueryQuery(q, h, id) ==
    IF ~AndQueryFast(q) THEN Scan(h, id, q)
    ELSE LET first == IF Fast(q.L) THEN q.L ELSE q.R
             other == IF Fast(q.L) THEN q.R ELSE q.L
             c == Query(first, h, id)
         IN IF c.panic # NoPanic THEN c
            ELSE LET s == Scan(c.heap, c.res, other) IN
                 [s EXCEPT !.written = @ \cup c.written,
                           !.evaluated = @ \cup c.evaluated]

NotQueryQuery(q, h, id) == Scan(h, id, q)

FieldQueryQuery(q, h, id) == Scan(h, id, q)

DependencyQueryQuery(q, h, id) == NewListOf(h, Search(h[id], q.Dep), NoPanic, {})

PkgQueryQuery(q, h, id) ==
    LET key == KeyOf(q.Arch, q.Pkg, q.Version) IN
    IF key \in DOMAIN h[id] THEN NewListOf(h, {h[id][key]}, NoPanic, {})
    ELSE NewListOf(h, {}, NoPanic, {})

Query(q, h, id) ==
    CASE q.op = "Or" -> OrQueryQuery(q, h, id)
      [] q.op = "And" -> AndQueryQuery(q, h, id)
      [] q.op = "Not" -> NotQueryQuery(q, h, id)
      [] q.op = "Field" -> FieldQueryQuery(q, h, id)
      [] q.op = "Dependency" -> DependencyQueryQuery(q, h, id)
      [] q.op = "Pkg" -> PkgQueryQuery(q, h, id)

(***************************************************************************)
(* Inputs of the query engine                                              *)
(***************************************************************************)
Leaves ==
    { PkgQ(Pkg1.Name, Pkg1.Version, Pkg1.Architecture),
      DepQ(<<"a">>, "VersionGreaterOrEqual", <<"1", "0">>),
      FieldQ("$Architecture", "VersionEqual", sAmd64),
      FieldQ("Section", "VersionRegexp", <<"n">>) }

\* single Field nodes of every relation, evaluated on their own
FieldLeaves ==
    { FieldQ(f, rel, v) :
        f \in {"Version", "Section", "$Architecture"},
        rel \in Relations \cup {"VersionUnknown"},
        v \in {<<"5">>, <<"n", "*">>, <<"[">>} }

\* trees around a Field node of an unrecognized relation, a $Version node and
\* a Pkg node of a package other than the one in Leaves
UnknownQ == FieldQ("Name", "VersionUnknown", <<"a">>)
VersionQ == FieldQ("$Version", "VersionLess", <<"1", "0">>)
Pkg3Q == PkgQ(Pkg3.Name, Pkg3.Version, Pkg3.Architecture)
ExtraTrees ==
    {UnknownQ, VersionQ, Pkg3Q} \cup
    UNION { {OrQ(a, b), OrQ(b, a), AndQ(a, b), AndQ(b, a), NotQ(OrQ(b, a))} :
              a \in Leaves, b \in {UnknownQ, VersionQ, Pkg3Q} }

TreesOfSize[n \in 1..(MaxNodes + 1)] ==
    IF n = 1 THEN Leaves
    ELSE {NotQ(t) : t \in TreesOfSize[n - 1]}
         \cup UNION { UNION { {OrQ(a, b), AndQ(a, b)} :
                                a \in TreesOfSize[i], b \in TreesOfSize[n - 1 - i] } :
                      i \in 1..(n - 2) }

Trees == FieldLeaves \cup ExtraTrees \cup UNION {TreesOfSize[n] : n \in 1..MaxNodes}

NoPkg == [Name |-> <<>>, Version |-> <<>>, Architecture |-> <<>>, Section |-> <<>>]

\* the nil slice: a value no architecture list equals
NilArchs == << <<"<nil>">> >>
NoRelease == [Date |-> 0]

\* the publish pipeline before any Publish call, on an empty repository
PublishIdle ==
    /\ pc = "idle"
    /\ err = "none"
    /\ list = <<>>
    /\ archIdx = 0
    /\ pkgIdx = 0
    /\ ckIdx = 0
    /\ bufWriter = <<>>
    /\ generatedFiles = <<>>
    /\ release = NoRelease
    /\ dirs = {}
    /\ files = <<>>
    /\ pool = {}
    /\ now = 0
    /\ log = <<>>
    /\ runs = <<>>

InitQ ==
    /\ query \in Trees
    /\ \E S \in SUBSET Universe : heap = <<MapOf(S)>>
    /\ qpc = "start"
    /\ results = <<>>
    /\ written = {}
    /\ matchPkg = NoPkg
    /\ matchOut = "none"
    /\ evaluated = {}
    /\ Architectures = NilArchs
    /\ refList = <<>>
    /\ PublishIdle

\* q.Matches(pkg) on some package
CallMatches ==
    /\ qpc = "start"
    /\ \E p \in Universe :
         /\ matchPkg' = p
         /\ matchOut' = Matches(query, p)
         /\ evaluated' = Evaluated(query, p)
    /\ qpc' = "matched"
    /\ UNCHANGED <<query, heap, results, written, pvars>>

\* q.Query(list) on the input list (object 1)
CallQuery ==
    /\ qpc \in {"start", "queried"}
    /\ Len(results) < MaxQueries
    /\ LET r == Query(query, heap, 1) IN
         /\ heap' = r.heap
         /\ written' = r.written
         /\ results' = IF r.panic = NoPanic THEN Append(results, r.res) ELSE results
         /\ qpc' = IF r.panic = NoPanic THEN "queried" ELSE "aborted"
         /\ matchOut' = r.panic
         /\ evaluated' = r.evaluated
    /\ UNCHANGED <<query, matchPkg, pvars>>

NextQ == CallMatches \/ CallQuery

SpecQ == InitQ /\ [][NextQ]_vars

(***************************************************************************)
(* Publish pipeline: paths, contents, the generated-files map              *)
(*                                                                         *)
(* A path is a sequence of elements, an element a sequence of name parts   *)
(* (so that "binary-" + arch and name + ".gz" are computed).               *)
(***************************************************************************)
Prefix == "repo"
Distribution == "squeeze"
Component == "main"

PoolPath == <<<<Prefix>>, <<"pool">>>>
BasePath == <<<<Prefix>>, <<"dists">>, <<Distribution>>>>
RelativePath(arch) == <<<<Component>>, <<"binary-", arch>>, <<"Packages">>>>
AddSuffix(path, sfx) == [path EXCEPT ![Len(path)] = Append(@, sfx)]
Dir(path) == SubSeq(path, 1, Len(path) - 1)
ReleasePath == BasePath \o <<<<"Release">>>>
ReleaseGpgPath == AddSuffix(ReleasePath, ".gpg")
InReleasePath == Dir(ReleasePath) \o <<<<"InRelease">>>>

\* the plain, the gzip and the bzip2 artifact of a Packages path
Variant(path, k) ==
    CASE k = 1 -> path
      [] k = 2 -> AddSuffix(path, ".gz")
      [] k = 3 -> AddSuffix(path, ".bz2")

\* pkg.Stanza() followed by the blank line
Stanza(pkg) ==
    << <<"Package", pkg.Name>>, <<"Version", pkg.Version>>,
       <<"Architecture", pkg.Architecture>>, <<"Section", pkg.Section>> >>

\* place of a package file in the pool
PoolFile(pkg) == <<Prefix, Component, Key(pkg)>>

\* content of a Packages file (the stanzas written) and of its compressed copies
Plain(stanzas) == [kind |-> "plain", data |-> stanzas]
Gzip(content) == [kind |-> "gzip", data |-> content.data]
Bzip2(content) == [kind |-> "bzip2", data |-> content.data]

\* utils.ChecksumInfo of a file: its size and digests, digests told apart by
\* the content they are of
ChecksumInfo(content) ==
    [Size |-> Len(content.data) + (IF content.kind = "plain" THEN 0 ELSE 1),
     MD5 |-> <<"md5", content>>,
     SHA1 |-> <<"sha1", content>>, SHA256 |-> <<"sha256", content>>]

FileSet(f, path, content) ==
    [k \in DOMAIN f \cup {path} |-> IF k = path THEN content ELSE f[k]]

\* m[k] = v on a Go map kept as <<key, value>> pairs in slot order
MapPut(m, k, v) ==
    IF \E i \in 1..Len(m) : m[i][1] = k
    THEN [i \in 1..Len(m) |-> IF m[i][1] = k THEN <<k, v>> ELSE m[i]]
    ELSE Append(m, <<k, v>>)

Rotate(m, r) == [i \in 1..Len(m) |-> m[((i - 1 + r) % Len(m)) + 1]]

\* The orders in which "for path, info := range generatedFiles" can visit the
\* map. The language leaves the order unspecified; the gc runtime starts a map
\* of up to 8 entries at a random slot and wraps around.
MapIterationOrders(m) ==
    IF m = <<>> THEN {<<>>} ELSE {Rotate(m, r) : r \in 0..(Len(m) - 1)}

RECURSIVE StringsJoin(_)
\* strings.Join(elems, " ")
StringsJoin(elems) ==
    IF elems = <<>> THEN <<>>
    ELSE IF Len(elems) = 1 THEN elems[1]
    ELSE elems[1] \o <<" ">> \o StringsJoin(Tail(elems))

RECURSIVE ListArchitectures(_)
\* PackageList.Architectures(): the concrete architectures present, each once
ListArchitectures(l) ==
    IF l = <<>> THEN <<>>
    ELSE LET rest == ListArchitectures(SubSeq(l, 1, Len(l) - 1))
             a == l[Len(l)].Architecture
         IN IF a = sAll \/ \E i \in 1..Len(rest) : rest[i] = a THEN rest
            ELSE Append(rest, a)

\* the Release stanza for the generated files visited in the given order
ReleaseStanza(archs, date, order) ==
    [Origin |-> <<Prefix, " ", Distribution>>,
     Label |-> <<Prefix, " ", Distribution>>,
     Codename |-> Distribution,
     Date |-> date,
     Components |-> Component,
     Architectures |-> StringsJoin(archs),
     Description |-> "Generated by aptly\n",
     MD5Sum |-> [i \in 1..Len(order) |-> <<order[i][2].MD5, order[i][2].Size, order[i][1]>>],
     SHA1 |-> [i \in 1..Len(order) |-> <<order[i][2].SHA1, order[i][2].Size, order[i][1]>>],
     SHA256 |-> [i \in 1..Len(order) |-> <<order[i][2].SHA256, order[i][2].Size, order[i][1]>>]]

(***************************************************************************)
(* Publish, one action per step                                            *)
(***************************************************************************)
CurArch == Architectures[archIdx]
CurPackages == BasePath \o RelativePath(CurArch)

\* mutant: an empty list is published like any other
IsEmptyList_Never(l) == FALSE

\* list.Len() == 0
IsEmptyList(l) == Len(l) = 0

\* mutant: every package of the list goes into every Packages file
WritesPackage_Always(pkg, arch) == TRUE

\* the condition under which the ForEach closure links and writes a package
WritesPackage(pkg, arch) == MatchesArchitecture(pkg, arch)

\* mutant: the three checksums of an architecture recorded under one key
GeneratedKey_Plain(arch, k) == RelativePath(arch)

\* the key of generatedFiles for artifact k of an architecture
GeneratedKey(arch, k) == Variant(RelativePath(arch), k)

\* mutant: ClearSign is handed the detached signature
ClearSignInput_Signature == ReleaseGpgPath

\* releaseFilename, the file both signer calls read
ClearSignInput == ReleasePath

ErrEmpty == "repository is empty, can't publish"

\* the step succeeded: go on
Advance(next, events) ==
    /\ pc' = next
    /\ log' = log \o events
    /\ UNCHANGED <<err, runs>>

\* the step failed: Publish returns the error
Abort(e, op) ==
    /\ pc' = "idle"
    /\ err' = e
    /\ log' = Append(log, <<"failed", op>>)
    /\ runs' = Append(runs, [ok |-> FALSE, release |-> <<>>])

StartPublish ==
    /\ pc = "idle"
    /\ Len(runs) < MaxRuns
    /\ pc' = "mkdirPool"
    /\ err' = "running"
    /\ now' = now + 1
    /\ log' = <<>>
    /\ list' = <<>>
    /\ archIdx' = 0
    /\ pkgIdx' = 0
    /\ ckIdx' = 0
    /\ bufWriter' = <<>>
    /\ generatedFiles' = <<>>
    /\ release' = NoRelease
    /\ UNCHANGED <<qvars, Architectures, refList, dirs, files, pool, runs>>

MkDirPool ==
    /\ pc = "mkdirPool"
    /\ \E ok \in BOOLEAN :
         IF ok THEN /\ dirs' = dirs \cup {PoolPath}
                    /\ Advance("mkdirBase", << <<"MkDir", PoolPath>> >>)
         ELSE /\ dirs' = dirs
              /\ Abort("mkdir failed", "MkDir")
    /\ UNCHANGED <<qvars, Architectures, refList, list, archIdx, pkgIdx, ckIdx, bufWriter,
                   generatedFiles, release, files, pool, now>>

MkDirBase ==
    /\ pc = "mkdirBase"
    /\ \E ok \in BOOLEAN :
         IF ok THEN /\ dirs' = dirs \cup {BasePath}
                    /\ Advance("load", << <<"MkDir", BasePath>> >>)
         ELSE /\ dirs' = dirs
              /\ Abort("mkdir failed", "MkDir")
    /\ UNCHANGED <<qvars, Architectures, refList, list, archIdx, pkgIdx, ckIdx, bufWriter,
                   generatedFiles, release, files, pool, now>>

\* NewPackageListFromRefList
LoadPackages ==
    /\ pc = "load"
    /\ \E ok \in BOOLEAN :
         IF ok THEN /\ list' = refList
                    /\ Advance("check", << <<"Load", Len(refList)>> >>)
         ELSE /\ list' = list
              /\ Abort("unable to load packages", "Load")
    /\ UNCHANGED <<qvars, Architectures, refList, archIdx, pkgIdx, ckIdx, bufWriter,
                   generatedFiles, release, dirs, files, pool, now>>

\* the empty-list check, the inference of the architectures and their check
CheckList ==
    /\ pc = "check"
    /\ IF IsEmptyList(list)
       THEN /\ Abort(ErrEmpty, "CheckEmpty")
            /\ UNCHANGED <<Architectures, archIdx>>
       ELSE LET archs == IF Architectures = NilArchs THEN ListArchitectures(list)
                         ELSE Architectures
            IN /\ Architectures' = archs
               /\ IF Len(archs) = 0
                  THEN /\ Abort("unable to figure out list of architectures", "CheckArchitectures")
                       /\ UNCHANGED archIdx
                  ELSE /\ archIdx' = 1
                       /\ Advance("archLoop", <<>>)
    /\ UNCHANGED <<qvars, refList, list, pkgIdx, ckIdx, bufWriter, generatedFiles, release,
                   dirs, files, pool, now>>

MkDirArch ==
    /\ pc = "archLoop"
    /\ archIdx <= Len(Architectures)
    /\ \E ok \in BOOLEAN :
         IF ok THEN /\ dirs' = dirs \cup {Dir(CurPackages)}
                    /\ Advance("createPackages", << <<"MkDir", Dir(CurPackages)>> >>)
         ELSE /\ dirs' = dirs
              /\ Abort("mkdir failed", "MkDir")
    /\ UNCHANGED <<qvars, Architectures, refList, list, archIdx, pkgIdx, ckIdx, bufWriter,
                   generatedFiles, release, files, pool, now>>

\* repo.CreateFile of the Packages file and the new bufio.Writer on it
CreatePackagesFile ==
    /\ pc = "createPackages"
    /\ \E ok \in BOOLEAN :
         IF ok THEN /\ files' = FileSet(files, CurPackages, Plain(<<>>))
                    /\ bufWriter' = <<>>
                    /\ pkgIdx' = 1
                    /\ Advance("forEach", << <<"CreateFile", CurPackages>> >>)
         ELSE /\ UNCHANGED <<files, bufWriter, pkgIdx>>
              /\ Abort("unable to creates Packages file", "CreateFile")
    /\ UNCHANGED <<qvars, Architectures, refList, list, archIdx, ckIdx, generatedFiles,
                   release, dirs, pool, now>>

\* one call of the ForEach closure: link the package from the pool and write
\* its stanza, when it matches the architecture
ProcessPackage ==
    /\ pc = "forEach"
    /\ pkgIdx <= Len(list)
    /\ LET pkg == list[pkgIdx] IN
       IF ~WritesPackage(pkg, CurArch)
       THEN /\ pkgIdx' = pkgIdx + 1
            /\ Advance("forEach", <<>>)
            /\ UNCHANGED <<pool, bufWriter, files>>
       ELSE \E outcome \in {"ok", "link fails", "write fails"} :
              CASE outcome = "ok" ->
                     /\ pool' = pool \cup {PoolFile(pkg)}
                     /\ bufWriter' = Append(bufWriter, Stanza(pkg))
                     /\ pkgIdx' = pkgIdx + 1
                     /\ Advance("forEach", << <<"Link", PoolFile(pkg)>>,
                                              <<"Write", CurPackages>> >>)
                     /\ UNCHANGED files
                [] outcome = "link fails" ->
                     /\ Abort("unable to creates process packages", "Link")
                     /\ UNCHANGED <<pool, bufWriter, pkgIdx, files>>
                [] outcome = "write fails" ->
                     /\ pool' = pool \cup {PoolFile(pkg)}
                     /\ \E n \in 0..Len(bufWriter) :
                          files' = FileSet(files, CurPackages, Plain(SubSeq(bufWriter, 1, n)))
                     /\ log' = log \o << <<"Link", PoolFile(pkg)>>, <<"failed", "Write">> >>
                     /\ pc' = "idle"
                     /\ err' = "unable to creates process packages"
                     /\ runs' = Append(runs, [ok |-> FALSE, release |-> <<>>])
                     /\ UNCHANGED <<bufWriter, pkgIdx>>
    /\ UNCHANGED <<qvars, Architectures, refList, list, archIdx, ckIdx, generatedFiles,
                   release, dirs, now>>

\* bufWriter.Flush() of the Packages file
FlushPackages ==
    /\ pc = "forEach"
    /\ pkgIdx > Len(list)
    /\ \E ok \in BOOLEAN :
         IF ok THEN /\ files' = FileSet(files, CurPackages, Plain(bufWriter))
                    /\ Advance("compress", << <<"Flush", CurPackages>> >>)
         ELSE /\ \E n \in 0..Len(bufWriter) :
                   files' = FileSet(files, CurPackages, Plain(SubSeq(bufWriter, 1, n)))
              /\ Abort("unable to write Packages file", "Flush")
    /\ UNCHANGED <<qvars, Architectures, refList, list, archIdx, pkgIdx, ckIdx, bufWriter,
                   generatedFiles, release, dirs, pool, now>>

\* utils.CompressFile: the .gz and the .bz2 copy, then packagesFile.Close()
CompressFile ==
    /\ pc = "compress"
    /\ \E outcome \in {"ok", "gzip fails", "bzip2 fails"} :
         LET gz == FileSet(files, Variant(CurPackages, 2), Gzip(files[CurPackages]))
             bz == FileSet(gz, Variant(CurPackages, 3), Bzip2(files[CurPackages]))
         IN CASE outcome = "ok" ->
                   /\ files' = bz
                   /\ ckIdx' = 1
                   /\ Advance("checksum", << <<"Compress", CurPackages>> >>)
              [] outcome = "gzip fails" ->
                   /\ UNCHANGED <<files, ckIdx>>
                   /\ Abort("unable to compress Packages files", "Compress")
              [] outcome = "bzip2 fails" ->
                   /\ files' = gz
                   /\ UNCHANGED ckIdx
                   /\ Abort("unable to compress Packages files", "Compress")
    /\ UNCHANGED <<qvars, Architectures, refList, list, archIdx, pkgIdx, bufWriter,
                   generatedFiles, release, dirs, pool, now>>

\* repo.ChecksumsForFile of the plain, the .gz and the .bz2 file in turn, each
\* recorded in generatedFiles under its relative path
ChecksumsForFile ==
    /\ pc = "checksum"
    /\ \E ok \in BOOLEAN :
         IF ok
         THEN /\ generatedFiles' =
                    MapPut(generatedFiles, GeneratedKey(CurArch, ckIdx),
                           ChecksumInfo(files[Variant(CurPackages, ckIdx)]))
              /\ IF ckIdx < 3
                 THEN /\ ckIdx' = ckIdx + 1
                      /\ archIdx' = archIdx
                      /\ Advance("checksum", << <<"Checksum", Variant(CurPackages, ckIdx)>> >>)
                 ELSE /\ ckIdx' = 0
                      /\ archIdx' = archIdx + 1
                      /\ Advance("archLoop", << <<"Checksum", Variant(CurPackages, ckIdx)>> >>)
         ELSE /\ UNCHANGED <<generatedFiles, ckIdx, archIdx>>
              /\ Abort("unable to collect checksums", "Checksum")
    /\ UNCHANGED <<qvars, Architectures, refList, list, pkgIdx, bufWriter, release, dirs,
                   files, pool, now>>

\* the Release stanza, its checksum blocks filled by ranging over the map
BuildRelease ==
    /\ pc = "archLoop"
    /\ archIdx > Len(Architectures)
    /\ \E order \in MapIterationOrders(generatedFiles) :
         release' = ReleaseStanza(Architectures, now, order)
    /\ Advance("createRelease", <<>>)
    /\ UNCHANGED <<qvars, Architectures, refList, list, archIdx, pkgIdx, ckIdx, bufWriter,
                   generatedFiles, dirs, files, pool, now>>

CreateReleaseFile ==
    /\ pc = "createRelease"
    /\ \E ok \in BOOLEAN :
         IF ok THEN /\ files' = FileSet(files, ReleasePath, <<>>)
                    /\ Advance("writeRelease", << <<"CreateFile", ReleasePath>> >>)
         ELSE /\ files' = files
              /\ Abort("unable to create Release file", "CreateFile")
    /\ UNCHANGED <<qvars, Architectures, refList, list, archIdx, pkgIdx, ckIdx, bufWriter,
                   generatedFiles, release, dirs, pool, now>>

\* release.WriteTo(bufWriter), bufWriter.Flush() and releaseFile.Close()
WriteRelease ==
    /\ pc = "writeRelease"
    /\ \E ok \in BOOLEAN :
         IF ok THEN /\ files' = FileSet(files, ReleasePath, <<release>>)
                    /\ Advance("detachedSign", << <<"Write", ReleasePath>>,
                                                  <<"Flush", ReleasePath>> >>)
         ELSE /\ files' = files
              /\ Abort("unable to create Release file", "Write")
    /\ UNCHANGED <<qvars, Architectures, refList, list, archIdx, pkgIdx, ckIdx, bufWriter,
                   generatedFiles, release, dirs, pool, now>>

\* mutant: a failed DetachedSign is not returned, ClearSign runs all the same
DetachedSign_IgnoresFailure ==
    /\ pc = "detachedSign"
    /\ \E ok \in BOOLEAN :
         IF ok THEN /\ files' = FileSet(files, ReleaseGpgPath,
                                        <<"detached signature", files[ReleasePath]>>)
                    /\ Advance("clearSign", << <<"DetachedSign", ReleasePath, ReleaseGpgPath>> >>)
         ELSE /\ files' = files
              /\ Advance("clearSign", << <<"failed", "DetachedSign">> >>)
    /\ UNCHANGED <<qvars, Architectures, refList, list, archIdx, pkgIdx, ckIdx, bufWriter,
                   generatedFiles, release, dirs, pool, now>>

DetachedSign ==
    /\ pc = "detachedSign"
    /\ \E ok \in BOOLEAN :
         IF ok THEN /\ files' = FileSet(files, ReleaseGpgPath,
                                        <<"detached signature", files[ReleasePath]>>)
                    /\ Advance("clearSign", << <<"DetachedSign", ReleasePath, ReleaseGpgPath>> >>)
         ELSE /\ files' = files
              /\ Abort("unable to sign Release file", "DetachedSign")
    /\ UNCHANGED <<qvars, Architectures, refList, list, archIdx, pkgIdx, ckIdx, bufWriter,
                   generatedFiles, release, dirs, pool, now>>

\* the clear-signed InRelease, then return nil
ClearSign ==
    /\ pc = "clearSign"
    /\ \E ok \in BOOLEAN :
         IF ok THEN /\ files' = FileSet(files, InReleasePath,
                                        <<"clear signed", files[ClearSignInput]>>)
                    /\ pc' = "idle"
                    /\ err' = "nil"
                    /\ log' = Append(log, <<"ClearSign", ClearSignInput, InReleasePath>>)
                    /\ runs' = Append(runs, [ok |-> TRUE, release |-> files[ReleasePath]])
         ELSE /\ files' = files
              /\ Abort("unable to sign Release file", "ClearSign")
    /\ UNCHANGED <<qvars, Architectures, refList, list, archIdx, pkgIdx, ckIdx, bufWriter,
                   generatedFiles, release, dirs, pool, now>>

(***************************************************************************)
(* Inputs of the publish pipeline                                          *)
(***************************************************************************)
Snapshots == {<<>>, <<Pkg2>>, <<Pkg2, Pkg3, Pkg1>>}

ArchNames == {sAmd64, sI386}

RECURSIVE ArchLists(_)
ArchLists(n) ==
    IF n = 0 THEN {<<>>}
    ELSE ArchLists(n - 1) \cup
         {Append(l, a) : l \in {x \in ArchLists(n - 1) : Len(x) = n - 1}, a \in ArchNames}

InitP ==
    /\ query = PkgQ(Pkg1.Name, Pkg1.Version, Pkg1.Architecture)
    /\ heap = <<MapOf({})>>
    /\ qpc = "off"
    /\ results = <<>>
    /\ written = {}
    /\ matchPkg = NoPkg
    /\ matchOut = "none"
    /\ evaluated = {}
    /\ Architectures \in {NilArchs} \cup ArchLists(MaxArchs)
    /\ refList \in Snapshots
    /\ PublishIdle

NextP ==
    \/ StartPublish
    \/ MkDirPool
    \/ MkDirBase
    \/ LoadPackages
    \/ CheckList
    \/ MkDirArch
    \/ CreatePackagesFile
    \/ ProcessPackage
    \/ FlushPackages
    \/ CompressFile
    \/ ChecksumsForFile
    \/ BuildRelease
    \/ CreateReleaseFile
    \/ WriteRelease
    \/ DetachedSign
    \/ ClearSign

SpecP == InitP /\ [][NextP]_vars

(***************************************************************************)
(* What one Publish call without a failure leaves in the repository        *)
(***************************************************************************)
RECURSIVE PackagesContent(_, _)
\* the stanzas of the packages of l that the Packages file of arch receives
PackagesContent(l, arch) ==
    IF l = <<>> THEN <<>>
    ELSE IF WritesPackage(Head(l), arch)
         THEN <<Stanza(Head(l))>> \o PackagesContent(Tail(l), arch)
         ELSE PackagesContent(Tail(l), arch)

ArtifactContent(l, arch, k) ==
    CASE k = 1 -> Plain(PackagesContent(l, arch))
      [] k = 2 -> Gzip(Plain(PackagesContent(l, arch)))
      [] k = 3 -> Bzip2(Plain(PackagesContent(l, arch)))

RECURSIVE CleanGenerated(_, _)
\* generatedFiles after the loop over archs
CleanGenerated(archs, l) ==
    IF archs = <<>> THEN <<>>
    ELSE LET a == archs[Len(archs)]
             m0 == CleanGenerated(SubSeq(archs, 1, Len(archs) - 1), l)
             m1 == MapPut(m0, GeneratedKey(a, 1), ChecksumInfo(ArtifactContent(l, a, 1)))
             m2 == MapPut(m1, GeneratedKey(a, 2), ChecksumInfo(ArtifactContent(l, a, 2)))
         IN MapPut(m2, GeneratedKey(a, 3), ChecksumInfo(ArtifactContent(l, a, 3)))

RECURSIVE CleanArtifacts(_, _)
CleanArtifacts(archs, l) ==
    IF archs = <<>> THEN <<>>
    ELSE LET a == archs[Len(archs)]
             path == BasePath \o RelativePath(a)
             f0 == CleanArtifacts(SubSeq(archs, 1, Len(archs) - 1), l)
             f1 == FileSet(f0, Variant(path, 1), ArtifactContent(l, a, 1))
             f2 == FileSet(f1, Variant(path, 2), ArtifactContent(l, a, 2))
         IN FileSet(f2, Variant(path, 3), ArtifactContent(l, a, 3))

\* the files after a Publish call that ranged over generatedFiles in `order`
CleanFiles(archs, l, date, order) ==
    LET rel == <<ReleaseStanza(archs, date, order)>>
        f1 == FileSet(CleanArtifacts(archs, l), ReleasePath, rel)
        f2 == FileSet(f1, ReleaseGpgPath, <<"detached signature", rel>>)
    IN FileSet(f2, InReleasePath, <<"clear signed", rel>>)

CleanDirs(archs) ==
    {PoolPath, BasePath} \cup {Dir(BasePath \o RelativePath(archs[i])) : i \in 1..Len(archs)}

CleanPool(archs, l) ==
    {PoolFile(l[j]) : j \in {j \in 1..Len(l) : \E i \in 1..Len(archs) : WritesPackage(l[j], archs[i])}}

\* a Release file's content with the Date field blanked
NoDate(content) == IF content = <<>> THEN content ELSE <<[content[1] EXCEPT !.Date = 0]>>

\* the files with the Date blanked in Release and in its two signed forms
NoDateFiles(f) ==
    [path \in DOMAIN f |->
        IF path = ReleasePath THEN NoDate(f[path])
        ELSE IF path \in {ReleaseGpgPath, InReleasePath} THEN <<f[path][1], NoDate(f[path][2])>>
        ELSE f[path]]

(***************************************************************************)
(* Properties of the query engine                                          *)
(***************************************************************************)
InputPkgs == PkgsOf(heap[1])
LastResult == PkgsOf(heap[results[Len(results)]])
ScanOutcomes == {Matches(query, p) : p \in InputPkgs}
ScanSet == {p \in InputPkgs : Matches(query, p) = "true"}

RECURSIVE FieldNodes(_)
FieldNodes(q) ==
    CASE q.op \in {"Or", "And"} -> FieldNodes(q.L) \cup FieldNodes(q.R)
      [] q.op = "Not" -> FieldNodes(q.Q)
      [] q.op = "Field" -> {q}
      [] OTHER -> {}

\* a Field node whose relation is regexp or unrecognized, evaluated by the
\* relation switch of FieldQuery.Matches
Aborting(n) ==
    /\ n.Field # "$Version"
    /\ n.Relation \notin (Relations \ {"VersionRegexp"})

HasAbortingField(q) == \E n \in FieldNodes(q) : Aborting(n)

C2_QueryAllocates ==
    [][qpc' \in {"queried", "aborted"} =>
          /\ Len(heap') > Len(heap)
          /\ \A i \in 1..Len(heap) : heap'[i] = heap[i]
          /\ written' \cap (1..Len(heap)) = {}
          /\ qpc' = "queried" =>
                /\ results'[Len(results')] \notin 1..Len(heap)
                /\ \A j \in 1..Len(results) : results[j] # results'[Len(results')]
      ]_vars

C2_Witness ==
    /\ qpc = "queried" /\ Len(results) = 2
    /\ query.op = "Or" /\ Fast(query)
    /\ results[2] \in written
    /\ InputPkgs # {} /\ LastResult # {}

Returned == pc = "idle" /\ runs # <<>>
Succeeded == Returned /\ err = "nil"
LogOps == {log[k][1] : k \in 1..Len(log)}
\* positions of the log where operation op on path happened
At(op, path) == {k \in 1..Len(log) : log[k][1] = op /\ log[k][2] = path}
ArchSet == {Architectures[i] : i \in 1..Len(Architectures)}
ReleaseWritten == files[ReleasePath][1]
BlockPaths(block) == {block[i][3] : i \in 1..Len(block)}

\* C3: a Publish call whose snapshot materialized to the empty list returns the
\* empty-repository error, having created, written, compressed, linked and
\* signed nothing.
C3_EmptyRepositoryRejected ==
    At("Load", 0) # {} =>
        /\ pc \in {"check", "idle"}
        /\ pc = "idle" => err = ErrEmpty
        /\ LogOps \cap {"CreateFile", "Write", "Flush", "Compress", "Checksum", "Link",
                        "DetachedSign", "ClearSign"} = {}
        /\ files = <<>>

C3_Witness == Returned /\ err = ErrEmpty /\ At("Load", 0) # {} /\ Architectures = <<sAmd64>>

\* C4: after a successful Publish the Packages files are those of the
\* architectures of the list, this call created exactly those, and the file of
\* architecture a holds, in list order, the stanzas of the packages whose
\* architecture is a or "all".
C4_PackagesPerArchitecture ==
    Succeeded =>
        /\ \A a \in ArchNames \cup {sAll} :
             /\ (BasePath \o RelativePath(a)) \in DOMAIN files <=> a \in ArchSet
             /\ At("CreateFile", BasePath \o RelativePath(a)) # {} <=> a \in ArchSet
        /\ \A path \in DOMAIN files : Len(path) = 6 => path[5][2] \in ArchSet
        /\ \A a \in ArchSet :
             files[BasePath \o RelativePath(a)].data =
                 [i \in 1..Len(SelectSeq(list, LAMBDA q : q.Architecture \in {a, sAll})) |->
                    Stanza(SelectSeq(list, LAMBDA q : q.Architecture \in {a, sAll})[i])]

C4_Witness ==
    /\ Succeeded
    /\ Architectures = <<sAmd64>>
    /\ list = <<Pkg2, Pkg3, Pkg1>>
    /\ files[BasePath \o RelativePath(sAmd64)].data = <<Stanza(Pkg2), Stanza(Pkg1)>>

\* C5 as stated: each checksum block has 3 lines per entry of the list.
C5_Original ==
    Succeeded =>
        /\ Len(ReleaseWritten.MD5Sum) = 3 * Len(Architectures)
        /\ Len(ReleaseWritten.SHA1) = 3 * Len(Architectures)
        /\ Len(ReleaseWritten.SHA256) = 3 * Len(Architectures)

\* C5 (amended): each checksum block has 3 lines per distinct architecture of
\* the list: one for the plain, the .gz and the .bz2 Packages file of each.
C5_ThreeLinesPerDistinctArchitecture ==
    Succeeded =>
        LET expected == {Variant(RelativePath(a), k) : a \in ArchSet, k \in 1..3} IN
        /\ Len(ReleaseWritten.MD5Sum) = 3 * Cardinality(ArchSet)
        /\ Len(ReleaseWritten.SHA1) = 3 * Cardinality(ArchSet)
        /\ Len(ReleaseWritten.SHA256) = 3 * Cardinality(ArchSet)
        /\ BlockPaths(ReleaseWritten.MD5Sum) = expected
        /\ BlockPaths(ReleaseWritten.SHA1) = expected
        /\ BlockPaths(ReleaseWritten.SHA256) = expected

C5_Witness == Succeeded /\ Architectures = <<sAmd64, sI386>> /\ Len(ReleaseWritten.SHA1) = 6

\* C6 as stated: two successful Publish calls in succession write Release files
\* that differ in the Date field only.
C6_Original ==
    (Len(runs) >= 2 /\ runs[Len(runs)].ok /\ runs[Len(runs) - 1].ok) =>
        NoDate(runs[Len(runs)].release) = NoDate(runs[Len(runs) - 1].release)

\* C8 as stated: after a failed Publish call and a successful one, the
\* directories, the pool and the files with their contents, the Date apart,
\* are those a single successful call produces.
C8_Original ==
    (Returned /\ Len(runs) >= 2 /\ runs[Len(runs)].ok /\ ~runs[Len(runs) - 1].ok) =>
        /\ dirs = CleanDirs(Architectures)
        /\ pool = CleanPool(Architectures, refList)
        /\ \A order \in MapIterationOrders(CleanGenerated(Architectures, refList)) :
             NoDateFiles(files) = NoDateFiles(CleanFiles(Architectures, refList, now, order))

\* Every successful Publish call, whatever failed before it, leaves what a
\* single successful call leaves for one of the orders the map can be ranged in.
PublishLeavesCleanResult ==
    Succeeded =>
        /\ dirs = CleanDirs(Architectures)
        /\ pool = CleanPool(Architectures, refList)
        /\ \E order \in MapIterationOrders(CleanGenerated(Architectures, refList)) :
             files = CleanFiles(Architectures, refList, now, order)

\* C9: a failed step is the last operation of its Publish call, which returns
\* an error; a failure inside the loop over the architectures leaves Release
\* uncreated by that call; between calls nothing changes; and no step removes a
\* directory, a file or a pool link, a failing step changing no file but the
\* one it was writing.
C9_FailFast ==
    /\ [](\A k \in 1..Len(log) :
             log[k][1] = "failed" =>
                /\ k = Len(log)
                /\ pc = "idle"
                /\ err \notin {"nil", "running", "none"}
                /\ archIdx \in 1..Len(Architectures) => At("CreateFile", ReleasePath) = {}
                /\ log[k][2] = "DetachedSign" => "ClearSign" \notin LogOps)
    /\ [][/\ dirs \subseteq dirs'
          /\ DOMAIN files \subseteq DOMAIN files'
          /\ pool \subseteq pool'
          /\ pc = "idle" => (pc' = "mkdirPool" /\ files' = files /\ dirs' = dirs /\ pool' = pool)
          /\ (pc # "idle" /\ pc' = "idle" /\ err' # "nil") =>
                \A path \in DOMAIN files :
                    files'[path] = files[path] \/ (archIdx >= 1 /\ path = CurPackages)
       ]_vars

C9_Witness ==
    /\ Returned
    /\ log[Len(log)] = <<"failed", "DetachedSign">>
    /\ ReleasePath \in DOMAIN files
    /\ ReleaseGpgPath \notin DOMAIN files

\* C10: Release is created only after every architecture's Packages file was
\* flushed, then compressed, then checksummed three times; DetachedSign runs
\* only after Release was written and flushed; ClearSign only after DetachedSign
\* succeeded, on the same Release file; and a signed Release lists the three
\* artifacts of every architecture.
C10_StepOrder ==
    /\ \A r \in At("CreateFile", ReleasePath) :
          \A a \in ArchSet :
             LET path == BasePath \o RelativePath(a) IN
             \E f \in At("Flush", path), c \in At("Compress", path) :
                /\ f < c
                /\ \A k \in 1..3 :
                      \E s \in At("Checksum", Variant(path, k)) : c < s /\ s < r
    /\ \A d \in At("DetachedSign", ReleasePath) :
          \E r \in At("CreateFile", ReleasePath), w \in At("Write", ReleasePath),
             f \in At("Flush", ReleasePath) : r < w /\ w < f /\ f < d
    /\ \A c \in 1..Len(log) :
          log[c][1] = "ClearSign" =>
             /\ log[c][2] = ReleasePath
             /\ \E d \in At("DetachedSign", ReleasePath) : d < c
    /\ LogOps \cap {"DetachedSign", "ClearSign"} # {} =>
          \A a \in ArchSet, k \in 1..3 :
             /\ Variant(RelativePath(a), k) \in BlockPaths(ReleaseWritten.MD5Sum)
             /\ Variant(RelativePath(a), k) \in BlockPaths(ReleaseWritten.SHA1)
             /\ Variant(RelativePath(a), k) \in BlockPaths(ReleaseWritten.SHA256)

C10_Witness ==
    /\ Succeeded
    /\ Len(Architectures) = 2
    /\ At("ClearSign", ReleasePath) # {}
    /\ InReleasePath \in DOMAIN files

====
